---------------------------- MODULE Spec2Model ----------------------------
(***************************************************************************)
(* A model of the OpenStates-to-Postgres loading pipeline of               *)
(* src/database.py and src/postgres.py: the schema registry, the file      *)
(* name tokenizer, the record cleaner, populate_database (step by step,    *)
(* against a transactional store) and the batch driver.                    *)
(*                                                                         *)
(* Text is modelled by TLA+ strings, which TLC treats as sequences of      *)
(* characters under Len, SubSeq and \o.                                    *)
(***************************************************************************)
EXTENDS Integers, Sequences, FiniteSets, TLC

(***************************************************************************)
(* Python string helpers                                                   *)
(***************************************************************************)
Char(s, i) == SubSeq(s, i, i)

Last(seq) == seq[Len(seq)]

RECURSIVE SplitAt(_, _, _, _, _)
SplitAt(s, sep, i, cur, acc) ==
    IF i > Len(s) THEN Append(acc, cur)
    ELSE IF Char(s, i) = sep THEN SplitAt(s, sep, i + 1, "", Append(acc, cur))
    ELSE SplitAt(s, sep, i + 1, cur \o Char(s, i), acc)

\* str.split(sep) for a one-character separator: "a//b" -> <<"a","","b">>, "" -> <<"">>
Split(s, sep) == SplitAt(s, sep, 1, "", <<>>)

RECURSIVE Join(_, _)
\* sep.join(seq)
Join(seq, sep) ==
    IF seq = <<>> THEN ""
    ELSE IF Len(seq) = 1 THEN seq[1]
    ELSE seq[1] \o sep \o Join(Tail(seq), sep)

\* sub in s
Contains(s, sub) ==
    \E i \in 1..(Len(s) - Len(sub) + 1) : SubSeq(s, i, i + Len(sub) - 1) = sub

\* s.replace(old, new, regex=False) for a one-character old
Replace(s, old, new) == Join(Split(s, old), new)

\* s[-2:]
LastTwo(s) == SubSeq(s, Len(s) - 1, Len(s))

\* s[:-2]
DropLastTwo(s) == SubSeq(s, 1, Len(s) - 2)

UpperLetters == "ABCDEFGHIJKLMNOPQRSTUVWXYZ"
LowerLetters == "abcdefghijklmnopqrstuvwxyz"
Digits == "0123456789"

PosIn(c, alphabet) ==
    IF \E i \in 1..Len(alphabet) : Char(alphabet, i) = c
    THEN CHOOSE i \in 1..Len(alphabet) : Char(alphabet, i) = c
    ELSE 0

IsDigit(c) == PosIn(c, Digits) > 0
IsAlpha(c) == PosIn(c, UpperLetters) > 0 \/ PosIn(c, LowerLetters) > 0

LowerChar(c) == IF PosIn(c, UpperLetters) > 0 THEN Char(LowerLetters, PosIn(c, UpperLetters)) ELSE c
UpperChar(c) == IF PosIn(c, LowerLetters) > 0 THEN Char(UpperLetters, PosIn(c, LowerLetters)) ELSE c

RECURSIVE Lower(_)
Lower(s) == IF s = "" THEN "" ELSE LowerChar(Char(s, 1)) \o Lower(Tail(s))

RECURSIVE Upper(_)
Upper(s) == IF s = "" THEN "" ELSE UpperChar(Char(s, 1)) \o Upper(Tail(s))

\* str.capitalize()
Capitalize(s) == IF s = "" THEN "" ELSE UpperChar(Char(s, 1)) \o Lower(Tail(s))

AllDigits(s) == \A i \in 1..Len(s) : IsDigit(Char(s, i))

RECURSIVE DigitsValue(_)
DigitsValue(s) ==
    IF s = "" THEN 0
    ELSE 10 * DigitsValue(SubSeq(s, 1, Len(s) - 1)) + (PosIn(Char(s, Len(s)), Digits) - 1)

\* int(s) on text without blanks or underscores: an optional sign and at
\* least one decimal digit, anything else is a ValueError.
IntParse(s) ==
    LET signed == Len(s) > 0 /\ Char(s, 1) \in {"+", "-"}
        body   == IF signed THEN Tail(s) ELSE s
    IN  IF body # "" /\ AllDigits(body)
        THEN [ok |-> TRUE,
              val |-> IF signed /\ Char(s, 1) = "-" THEN 0 - DigitsValue(body) ELSE DigitsValue(body)]
        ELSE [ok |-> FALSE, val |-> 0]

(***************************************************************************)
(* constants.py (imported by database.py, line 7)                          *)
(***************************************************************************)
state_names == ("IL" :> "Illinois")

state_abbreviations == ("Illinois" :> "IL")

(***************************************************************************)
(* tokenize_data_file                                                      *)
(***************************************************************************)
NoTokens == [err |-> "none", state |-> "", session |-> 0, special |-> FALSE, csv_type |-> ""]

\* int(session[:-2]), the last statement of tokenize_data_file that can raise
SessionNumber(session) == IntParse(DropLastTwo(session))

tokenize_data_file(data_file) ==
    LET tokens   == Split(Last(Split(Split(data_file, ".")[1], "/")), "_")
        csv_type == Join(SubSeq(tokens, 3, Len(tokens)), "_")
        raw      == tokens[2]
        special  == Contains(raw, "-")
        session  == IF special THEN Split(raw, "-")[1] ELSE raw
        number   == SessionNumber(session)
    IN  IF tokens[1] \notin DOMAIN state_names THEN [NoTokens EXCEPT !.err = "KeyError"]
        ELSE IF Len(tokens) < 2 THEN [NoTokens EXCEPT !.err = "IndexError"]
        ELSE IF ~number.ok THEN [NoTokens EXCEPT !.err = "ValueError"]
        ELSE [err |-> "none", state |-> Lower(state_names[tokens[1]]),
              session |-> number.val, special |-> special, csv_type |-> csv_type]

(***************************************************************************)
(* The record cleaner of populate_database (lines 183-201)                 *)
(***************************************************************************)
\* pandas.read_csv's default missing-value markers
NaValues == {"", "#N/A", "#N/A N/A", "#NA", "-1.#IND", "-1.#QNAN", "-NaN", "-nan",
             "1.#IND", "1.#QNAN", "<NA>", "N/A", "NA", "NULL", "NaN", "None",
             "n/a", "nan", "null"}

NaN == [na |-> TRUE, s |-> ""]
Str(s) == [na |-> FALSE, s |-> s]

\* pd.read_csv(infile, dtype=str): every cell is a string or NaN
ReadCell(text) == IF text \in NaValues THEN NaN ELSE Str(text)

read_csv(file) ==
    [header |-> file.header,
     rows   |-> [r \in DOMAIN file.rows |->
                    [c \in DOMAIN file.rows[r] |-> ReadCell(file.rows[r][c])]]]

\* table.to_csv(cleaned_file, index=False): NaN is written as the empty field
to_csv(table) ==
    [header |-> table.header,
     rows   |-> [r \in DOMAIN table.rows |->
                    [c \in DOMAIN table.rows[r] |->
                        IF table.rows[r][c].na THEN "" ELSE table.rows[r][c].s]]]

\* .str.split("/").str[-1] on one cell
LastSegmentFirst(cell) == IF cell.na THEN cell ELSE Str(Split(cell.s, "/")[1])

LastSegment(cell) == IF cell.na THEN cell ELSE Str(Last(Split(cell.s, "/")))

\* the three .str.replace calls on one cell
ArrayLiteral(cell) ==
    IF cell.na THEN cell
    ELSE Str(Replace(Replace(Replace(cell.s, "[", "{"), "]", "}"), "'", ""))

\* the body of the loop over table.columns, for one cell of column column_name
CleanCell(column_name, cell) ==
    IF LastTwo(column_name) = "id" THEN LastSegment(cell)
    ELSE IF Contains(column_name, "classification") THEN ArrayLiteral(cell)
    ELSE cell

CleanTable(table) ==
    [header |-> table.header,
     rows   |-> [r \in DOMAIN table.rows |->
                    [c \in DOMAIN table.rows[r] |->
                        CleanCell(table.header[c], table.rows[r][c])]]]

\* lines 183-201: read, clean, overwrite
CleanFile(file) == to_csv(CleanTable(read_csv(file)))

(***************************************************************************)
(* The schema registry csv_type_to_schema: each CREATE TABLE statement as  *)
(* the list of its column definitions.                                     *)
(***************************************************************************)
Column(n, t, l, a, r, p) == [name |-> n, type |-> t, len |-> l, array |-> a, ref |-> r, pk |-> p]

PrimaryKey(n)     == Column(n, "UUID", 0, FALSE, "", TRUE)
UuidCol(n)        == Column(n, "UUID", 0, FALSE, "", FALSE)
References(n, t)  == Column(n, "UUID", 0, FALSE, t, FALSE)
Varchar(n, l)     == Column(n, "VARCHAR", l, FALSE, "", FALSE)
TextCol(n)        == Column(n, "TEXT", 0, FALSE, "", FALSE)
DateCol(n)        == Column(n, "DATE", 0, FALSE, "", FALSE)
SmallInt(n)       == Column(n, "SMALLINT", 0, FALSE, "", FALSE)
BooleanCol(n)     == Column(n, "BOOLEAN", 0, FALSE, "", FALSE)
EnumCol(n, t)     == Column(n, t, 0, FALSE, "", FALSE)
EnumArray(n, t)   == Column(n, t, 0, TRUE, "", FALSE)

BuiltinTypes == {"UUID", "VARCHAR", "TEXT", "DATE", "SMALLINT", "BOOLEAN"}

schema_bill_abstracts ==
    << PrimaryKey("id"), References("bill_id", "bills"), TextCol("abstract"), TextCol("note") >>

schema_bill_actions ==
    << PrimaryKey("id"), References("bill_id", "bills"), UuidCol("organization_id"),
       TextCol("description"), DateCol("date"),
       EnumArray("classification", "bill_action_classification"), SmallInt("bill_order") >>

schema_bills ==
    << PrimaryKey("id"), Varchar("identifier", 10), Varchar("title", 100),
       EnumArray("classification", "bill_classification"), Varchar("subject", 10),
       Varchar("session_identifier", 13), Varchar("jurisdiction", 20),
       EnumCol("organization_classification", "organization_classification_enum") >>

schema_bill_document_links ==
    << PrimaryKey("id"), Varchar("media_type", 10), TextCol("url"),
       References("document_id", "bill_documents") >>

schema_bill_documents ==
    << PrimaryKey("id"), References("bill_id", "bills"), Varchar("note", 50), DateCol("date"),
       Varchar("classification", 20), Varchar("extras", 20) >>

schema_bill_sources ==
    << PrimaryKey("id"), Varchar("note", 20), TextCol("url"), References("bill_id", "bills") >>

schema_bill_sponsorships ==
    << PrimaryKey("id"), Varchar("name", 100), Varchar("entity_type", 16),
       UuidCol("organization_id"), UuidCol("person_id"), References("bill_id", "bills"),
       BooleanCol("primary_sponsor"),
       EnumCol("classification", "bill_sponsorship_classification") >>

schema_bill_version_links ==
    << PrimaryKey("id"), Varchar("media_type", 20), TextCol("url"),
       References("version_id", "bill_versions") >>

schema_bill_versions ==
    << PrimaryKey("id"), References("bill_id", "bills"), Varchar("note", 100), DateCol("date"),
       Varchar("classification", 20), Varchar("extras", 20) >>

schema_vote_counts ==
    << PrimaryKey("id"), References("vote_event_id", "votes"), EnumCol("option", "vote_option"),
       SmallInt("value") >>

schema_vote_people ==
    << PrimaryKey("id"), References("vote_event_id", "votes"), EnumCol("option", "vote_option"),
       Varchar("voter_name", 50), UuidCol("voter_id"), Varchar("note", 50) >>

schema_vote_sources ==
    << PrimaryKey("id"), Varchar("url", 100), Varchar("note", 100),
       References("vote_event_id", "votes") >>

schema_votes ==
    << PrimaryKey("id"), Varchar("identifier", 10), Varchar("motion_text", 50),
       EnumArray("motion_classification", "bill_action_classification"), DateCol("start_date"),
       EnumCol("result", "result_enum"), UuidCol("organization_id"),
       References("bill_id", "bills"), References("bill_action_id", "bill_actions"),
       Varchar("jurisdiction", 16), Varchar("session_identifier", 16) >>

schema_people ==
    << PrimaryKey("id"), Varchar("name", 50), EnumCol("current_party", "party"),
       SmallInt("current_district"), EnumCol("current_chamber", "organization_classification"),
       Varchar("given_name", 25), Varchar("family_name", 25), Varchar("gender", 10),
       Varchar("email", 50), TextCol("biography"), DateCol("birth_date"), DateCol("death_date"),
       Varchar("image", 100), TextCol("links"), TextCol("sources"),
       Varchar("capitol_address", 100), Varchar("capitol_voice", 50), Varchar("capitol_fax", 50),
       Varchar("district_address", 100), Varchar("district_voice", 50),
       Varchar("district_fax", 50), Varchar("twitter", 50), Varchar("youtube", 50),
       Varchar("instagram", 50), Varchar("facebook", 50) >>

csv_type_to_schema ==
    [t \in {"bill_abstracts", "bill_actions", "bills", "bill_document_links", "bill_documents",
            "bill_sources", "bill_sponsorships", "bill_version_links", "bill_versions",
            "vote_counts", "vote_people", "vote_sources", "votes", "people"} |->
        CASE t = "bill_abstracts"      -> schema_bill_abstracts
          [] t = "bill_actions"        -> schema_bill_actions
          [] t = "bills"               -> schema_bills
          [] t = "bill_document_links" -> schema_bill_document_links
          [] t = "bill_documents"      -> schema_bill_documents
          [] t = "bill_sources"        -> schema_bill_sources
          [] t = "bill_sponsorships"   -> schema_bill_sponsorships
          [] t = "bill_version_links"  -> schema_bill_version_links
          [] t = "bill_versions"       -> schema_bill_versions
          [] t = "vote_counts"         -> schema_vote_counts
          [] t = "vote_people"         -> schema_vote_people
          [] t = "vote_sources"        -> schema_vote_sources
          [] t = "votes"               -> schema_votes
          [] t = "people"              -> schema_people]

table_order_swapped ==
    << "bill_actions", "people", "bill_documents", "bills", "bill_abstracts",
       "bill_sponsorships", "bill_sources", "bill_versions", "bill_version_links", "votes",
       "vote_sources", "vote_counts", "vote_people", "bill_document_links" >>

table_order ==
    << "bills", "people", "bill_documents", "bill_actions", "bill_abstracts",
       "bill_sponsorships", "bill_sources", "bill_versions", "bill_version_links", "votes",
       "vote_sources", "vote_counts", "vote_people", "bill_document_links" >>

\* the enumerated types initialize_database declares, with their labels
DeclaredEnums ==
    [n \in {"bill_action_classification", "organization_classification_enum",
            "bill_classification", "bill_sponsorship_classification", "vote_option",
            "result_enum", "party"} |->
        CASE n = "bill_action_classification" ->
                {"filing", "introduction", "reading-1", "reading-2", "reading-3",
                 "referral-committee", "committee-passage", "committee-failure",
                 "committee-passage-favorable", "amendment-passage", "amendment-failure",
                 "amendment-introduction", "executive-signature", "executive-receipt",
                 "executive-veto", "executive-veto-line-item", "veto-override-passage",
                 "withdrawal", "passage", "failure", "became-law"}
          [] n = "organization_classification_enum" -> {"upper", "lower"}
          [] n = "bill_classification" ->
                {"resolution", "bill", "joint resolution", "constitutional amendment",
                 "appointment"}
          [] n = "bill_sponsorship_classification" -> {"primary", "cosponsor"}
          [] n = "vote_option" -> {"yes", "no", "not voting", "absent", "excused", "other"}
          [] n = "result_enum" -> {"pass", "fail"}
          [] n = "party" -> {"Republican", "Democratic", "Libertarian", "Green", "Independent"}]

\* the type names a table's column definitions use beyond the built-in ones
EnumsUsed(t) ==
    {csv_type_to_schema[t][c].type : c \in DOMAIN csv_type_to_schema[t]} \ BuiltinTypes

\* the tables a table's column definitions reference
ParentsOf(t) ==
    {csv_type_to_schema[t][c].ref : c \in DOMAIN csv_type_to_schema[t]} \ {""}

(***************************************************************************)
(* The store (PostgreSQL), as far as the statements of the loader need it  *)
(***************************************************************************)
\* The values a UUID column accepts and the values a DATE column accepts,
\* abstracted to a few tokens; text holding "/" is never among them.
Uuids == {"u1", "u2", "u3", "u9", "a1", "a2", "p1", "o1"}
Dates == {"2023-01-11"}
Booleans == {"t", "f", "true", "false", "yes", "no", "on", "off", "1", "0"}

RECURSIVE Strip(_)
\* surrounding blanks of an array element are skipped
Strip(s) ==
    IF s # "" /\ Char(s, 1) = " " THEN Strip(Tail(s))
    ELSE IF s # "" /\ Char(s, Len(s)) = " " THEN Strip(SubSeq(s, 1, Len(s) - 1))
    ELSE s

\* the input conversion of an array literal "{a,b}" of an enumerated type
ArrayOK(text, labels) ==
    /\ Len(text) >= 2
    /\ Char(text, 1) = "{"
    /\ Char(text, Len(text)) = "}"
    /\ LET inner == SubSeq(text, 2, Len(text) - 1)
           elems == Split(inner, ",")
       IN  inner = "" \/ \A i \in DOMAIN elems : Strip(elems[i]) \in labels

\* the error raised by converting one CSV field for one column, or "none";
\* an unquoted empty field is NULL
FieldError(col, text, types) ==
    IF text = "" THEN "none"
    ELSE CASE col.type = "UUID" ->
                IF text \in Uuids THEN "none" ELSE "InvalidTextRepresentation"
           [] col.type = "VARCHAR" ->
                IF Len(text) <= col.len THEN "none" ELSE "StringDataRightTruncation"
           [] col.type = "TEXT" -> "none"
           [] col.type = "DATE" ->
                IF text \in Dates THEN "none" ELSE "InvalidDatetimeFormat"
           [] col.type = "SMALLINT" ->
                IF ~IntParse(text).ok THEN "InvalidTextRepresentation"
                ELSE IF IntParse(text).val \in -32768..32767 THEN "none"
                ELSE "NumericValueOutOfRange"
           [] col.type = "BOOLEAN" ->
                IF Lower(text) \in Booleans THEN "none" ELSE "InvalidTextRepresentation"
           [] OTHER ->
                IF col.array
                THEN IF ArrayOK(text, types[col.type]) THEN "none"
                     ELSE "InvalidTextRepresentation"
                ELSE IF text \in types[col.type] THEN "none"
                     ELSE "InvalidTextRepresentation"

\* the error of one CSV line entering a table laid out as schema, after the
\* lines before it: field count, field conversion left to right, then the
\* NOT NULL and unique index of the primary key
RowError(schema, rows, i, types) ==
    LET row  == rows[i]
        bad  == {c \in DOMAIN schema : FieldError(schema[c], row[c], types) # "none"}
        minb == CHOOSE c \in bad : \A d \in bad : c <= d
    IN  IF Len(row) # Len(schema) THEN "BadCopyFileFormat"
        ELSE IF bad # {} THEN FieldError(schema[minb], row[minb], types)
        ELSE IF \E c \in DOMAIN schema : schema[c].pk /\ row[c] = "" THEN "NotNullViolation"
        ELSE IF \E j \in 1..(i - 1) : \E c \in DOMAIN schema : schema[c].pk /\ rows[j][c] = row[c]
             THEN "UniqueViolation"
        ELSE "none"

\* COPY <temp> FROM STDIN CSV HEADER into a table created LIKE <csv_type>
\* INCLUDING ALL: the error of the first line that fails, or "none"
CopyError(schema, rows, types) ==
    LET bad == {i \in DOMAIN rows : RowError(schema, rows, i, types) # "none"}
    IN  IF bad = {} THEN "none"
        ELSE RowError(schema, rows, CHOOSE i \in bad : \A j \in bad : i <= j, types)

PkOf(schema) == CHOOSE c \in DOMAIN schema : schema[c].pk

Ids(schema, rowset) == {r[PkOf(schema)] : r \in rowset}

\* the rows INSERT ... SELECT * FROM <temp> ON CONFLICT DO NOTHING proposes
\* and keeps: those whose primary key is not in the target, the first of
\* each key
RowsToInsert(schema, target, staged) ==
    {staged[i] : i \in {k \in DOMAIN staged :
        /\ staged[k][PkOf(schema)] \notin Ids(schema, target)
        /\ \A j \in 1..(k - 1) : staged[j][PkOf(schema)] # staged[k][PkOf(schema)]}}

\* the foreign keys of the inserted rows, checked when the statement ends
ForeignKeysHold(t, inserted, rows) ==
    \A r \in inserted : \A c \in DOMAIN csv_type_to_schema[t] :
        LET col == csv_type_to_schema[t][c]
        IN  (col.ref # "" /\ r[c] # "") =>
                r[c] \in Ids(csv_type_to_schema[col.ref], rows[col.ref])

\* the target table had the statement said ON CONFLICT (id) DO UPDATE
MergedUpsert(schema, target, staged) ==
    LET new == {staged[i] : i \in DOMAIN staged}
    IN  {r \in target : r[PkOf(schema)] \notin Ids(schema, new)} \cup new

\* the target table after the merge statement
Merged(schema, target, staged) == target \cup RowsToInsert(schema, target, staged)

\* CREATE TABLE IF NOT EXISTS <t> (...): the error, or "none"
CreateTableError(t, tables, types) ==
    IF t \in tables THEN "none"
    ELSE IF ~(EnumsUsed(t) \subseteq types) THEN "UndefinedObject"
    ELSE IF ~(ParentsOf(t) \subseteq tables) THEN "UndefinedTable"
    ELSE "none"

NoRows == [t \in DOMAIN csv_type_to_schema |-> {}]
NoTx == [tables |-> {}, rows |-> NoRows]

(***************************************************************************)
(* Bounds and the files the provider may have left on disk                 *)
(***************************************************************************)
\* how many times the batch driver is run
MaxRuns == 2

HeaderOf(t) == [c \in DOMAIN csv_type_to_schema[t] |-> csv_type_to_schema[t][c].name]

CsvFile(t, rows) == [header |-> HeaderOf(t), rows |-> rows]

BillRow(id, title) ==
    << id, "HB1", title, "['bill']", "", "103rd", "Illinois", "lower" >>

ActionRow(id, bill_id) ==
    << id, bill_id, "ocd-organization/o1", "First Reading", "2023-01-11",
       "['introduction', 'reading-1']", "1" >>

PersonRow(id) ==
    << id, "Ann Lee", "Democratic", "7", "upper", "Ann", "Lee", "", "", "", "", "", "",
       "", "", "", "", "", "", "", "", "", "", "", "" >>

state_abbreviation == state_abbreviations[Capitalize("illinois")]

RosterPath == Join(<<state_abbreviation, Upper(state_abbreviation) \o "_00NA_people.csv">>, "/")

RosterChoices == { CsvFile("people", << PersonRow("ocd-person/p1") >>) }

Bills103Path == "IL/103rd/IL_103rd_bills.csv"
Bills103Choices ==
    { CsvFile("bills", << BillRow("ocd-bill/u1", "Budget") >>),
      CsvFile("bills", << BillRow("ocd-bill/u1", "Budget"), BillRow("u2", "Roads") >>),
      CsvFile("bills", << BillRow("ocd-bill/u1", "Budget"), BillRow("u1", "Budget") >>) }

Bills102Path == "IL/102nd/IL_102nd_bills.csv"
Bills102File ==
    CsvFile("bills", << BillRow("ocd-bill/u1", "Parks"), BillRow("ocd-bill/u3", "Water") >>)

Actions103Path == "IL/103rd/IL_103rd_bill_actions.csv"
Actions103Choices ==
    { CsvFile("bill_actions", << ActionRow("ocd-action/a1", "ocd-bill/u1") >>),
      CsvFile("bill_actions", << ActionRow("ocd-action/a1", "ocd-bill/u1"),
                                 ActionRow("ocd-action/a2", "ocd-bill/u9") >>) }

\* a session directory whose name holds an underscore
OddPath == "IL/1st_x/IL_1st_x_bills.csv"
OddFile == CsvFile("bills", << BillRow("ocd-bill/u1", "Budget") >>)

\* Each slot of the disk holds one of its alternatives or nothing; the
\* last slot is a second session directory, of one name or the other.
Slots ==
    << {[path |-> RosterPath, file |-> f] : f \in RosterChoices},
       {[path |-> Bills103Path, file |-> f] : f \in Bills103Choices},
       {[path |-> Actions103Path, file |-> f] : f \in Actions103Choices},
       {[path |-> Bills102Path, file |-> Bills102File], [path |-> OddPath, file |-> OddFile]} >>

NoFile == [header |-> <<>>, rows |-> <<>>]

Paths == {a.path : a \in UNION {Slots[i] : i \in DOMAIN Slots}}

\* the file of path p on the disk made of the alternatives picked (a set of
\* at most one alternative a slot)
DiskOf(picked) ==
    [p \in Paths |-> IF \E a \in picked : a.path = p
                     THEN (CHOOSE a \in picked : a.path = p).file ELSE NoFile]

Disks ==
    { DiskOf(picked) : picked \in
        { q \in SUBSET UNION {Slots[i] : i \in DOMAIN Slots} :
            \A i \in DOMAIN Slots : Cardinality(q \cap Slots[i]) <= 1 } }

\* os.path.isfile
IsFile(d, path) == path \in DOMAIN d /\ d[path] # NoFile

\* the names os.listdir(state_abbreviation) returns
DirEntries(d) == {Split(path, "/")[2] : path \in {q \in DOMAIN d : d[q] # NoFile}}

\* An enumerated type named organization_classification that something
\* other than this program may have made in the store, with its labels
FoundEnums == ("organization_classification" :> {"upper", "lower"})

\* the enumerated types the store holds when the program first meets it
FoundTypes == { {}, DOMAIN FoundEnums }

\* the labels of every enumerated type the store can hold
TypeLabels == DeclaredEnums @@ FoundEnums

Orderings(S) == {q \in [1..Cardinality(S) -> S] : \A i, j \in DOMAIN q : i # j => q[i] # q[j]}

(***************************************************************************)
(* State                                                                   *)
(***************************************************************************)
VARIABLES
    pc,        \* the statement the program is at
    caller,    \* where populate_database was called from: "roster" or "loop"
    sessions,  \* the list os.listdir returned
    si, ti,    \* the positions of the two for loops of the driver
    log,       \* what the driver printed in this run
    attempts,  \* the paths populate_database was called with in this run
    runs,      \* how many times the driver was started
    err,       \* the exception in flight, or "none"
    frame,     \* the locals of the running populate_database
    disk,      \* the CSV files
    dbTypes,   \* the store: committed enumerated types
    dbTables,  \* the store: committed tables
    dbRows,    \* the store: committed rows of each table
    conn,      \* whether the connection of populate_database is open
    tx,        \* what the open transaction sees: tables and rows
    temp,      \* the temporary tables of the open session
    last,      \* the record of the load that finished last
    probe      \* the argument and result of a function applied on its own

vars == << pc, caller, sessions, si, ti, log, attempts, runs, err, frame, disk,
           dbTypes, dbTables, dbRows, conn, tx, temp, last, probe >>

NoFrame == [path |-> "", state |-> "", csv_type |-> "", temp_name |-> "", at |-> "none",
            before |-> NoRows, file |-> NoFile]

\* path: the argument; at: the statement that raised err, or "none";
\* before, after: the committed rows when the load began and ended; file:
\* the file as it was when the load began; again: the load before it was a
\* load of the same path that returned
NoLoad == [path |-> "", err |-> "none", at |-> "none", before |-> NoRows, after |-> NoRows,
           file |-> NoFile, csv_type |-> "", again |-> FALSE]

NoProbe == [kind |-> "none"]

Init ==
    /\ pc = "start"
    /\ caller = "none"
    /\ sessions = <<>>
    /\ si = 1
    /\ ti = 1
    /\ log = <<>>
    /\ attempts = <<>>
    /\ runs = 1
    /\ err = "none"
    /\ frame = NoFrame
    /\ disk \in Disks
    /\ dbTypes \in FoundTypes
    /\ dbTables = {}
    /\ dbRows = NoRows
    /\ conn = FALSE
    /\ tx = NoTx
    /\ temp = {}
    /\ last = NoLoad
    /\ probe = NoProbe

driverVars == << sessions, si, ti, log, runs >>
storeVars  == << dbTypes, dbTables, dbRows >>
txVars     == << conn, tx, temp >>

(***************************************************************************)
(* initialize_database                                                     *)
(***************************************************************************)
\* each DO block creates its type unless it exists (duplicate_object is
\* swallowed), then the connection commits
InitializeDatabase ==
    /\ pc = "start"
    /\ dbTypes' = dbTypes \cup DOMAIN DeclaredEnums
    /\ pc' = "roster"
    /\ UNCHANGED << caller, sessions, si, ti, log, attempts, runs, err, frame, disk,
                    dbTables, dbRows, conn, tx, temp, last, probe >>

(***************************************************************************)
(* populate_database, one action per statement                             *)
(***************************************************************************)
\* the call: a fresh frame
Call(path, from, session, table) ==
    /\ pc' = "tokenize"
    /\ caller' = from
    /\ attempts' = Append(attempts, [path |-> path, session |-> session, table |-> table])
    /\ err' = "none"
    /\ frame' = [NoFrame EXCEPT !.path = path, !.before = dbRows,
                                !.file = IF IsFile(disk, path) THEN disk[path] ELSE NoFile]

\* the record of a load that ends with exception e ("none": it returned)
Finished(e) ==
    /\ last' = [path |-> frame.path, err |-> e, at |-> IF e = "none" THEN "none" ELSE IF pc = "exit" THEN frame.at ELSE pc,
                before |-> frame.before, after |-> dbRows,
                file |-> frame.file, csv_type |-> frame.csv_type,
                again |-> last.path = frame.path /\ last.err = "none"]

\* the for loops' next position
NextSi == IF ti = Len(table_order) THEN si + 1 ELSE si
NextTi == IF ti = Len(table_order) THEN 1 ELSE ti + 1

\* lines 179-180
Tokenize ==
    /\ pc = "tokenize"
    /\ LET tok == tokenize_data_file(Last(Split(frame.path, "/")))
       IN  IF tok.err # "none"
           THEN /\ err' = tok.err
                /\ pc' = "raised"
                /\ Finished(tok.err)
                /\ UNCHANGED frame
           ELSE /\ frame' = [frame EXCEPT !.state = tok.state, !.csv_type = tok.csv_type]
                /\ pc' = "clean"
                /\ UNCHANGED << err, last >>
    /\ UNCHANGED << caller, attempts, disk, probe >>
    /\ UNCHANGED << driverVars, storeVars, txVars >>

\* lines 183-201: the file is read, cleaned and written over itself
Clean ==
    /\ pc = "clean"
    /\ IF ~IsFile(disk, frame.path)
       THEN /\ err' = "FileNotFoundError"
            /\ pc' = "raised"
            /\ Finished("FileNotFoundError")
            /\ UNCHANGED disk
       ELSE /\ disk' = [disk EXCEPT ![frame.path] = CleanFile(@)]
            /\ pc' = "connect"
            /\ UNCHANGED << err, last >>
    /\ UNCHANGED << caller, attempts, frame, probe >>
    /\ UNCHANGED << driverVars, storeVars, txVars >>

\* line 204, Database.__init__: a new connection; its first statement opens
\* a transaction on the committed store
Connect ==
    /\ pc = "connect"
    /\ \E fault \in BOOLEAN :
        IF fault
        THEN /\ err' = "OperationalError"
             /\ pc' = "raised"
             /\ Finished("OperationalError")
             /\ UNCHANGED txVars
        ELSE /\ conn' = TRUE
             /\ tx' = [tables |-> dbTables, rows |-> dbRows]
             /\ pc' = "lookup"
             /\ UNCHANGED << err, last, temp >>
    /\ UNCHANGED << caller, attempts, frame, disk, probe >>
    /\ UNCHANGED << driverVars, storeVars >>

\* lines 209-210
Lookup ==
    /\ pc = "lookup"
    /\ IF frame.csv_type \notin DOMAIN csv_type_to_schema
       THEN /\ err' = "KeyError"
            /\ pc' = "exit"
            /\ frame' = [frame EXCEPT !.temp_name = frame.csv_type \o "_temp", !.at = pc]
       ELSE /\ frame' = [frame EXCEPT !.temp_name = frame.csv_type \o "_temp"]
            /\ pc' = "create_table"
            /\ UNCHANGED err
    /\ UNCHANGED << caller, attempts, disk, last, probe >>
    /\ UNCHANGED << driverVars, storeVars, txVars >>

\* line 212
CreateTable ==
    /\ pc = "create_table"
    /\ \E fault \in BOOLEAN :
        LET e == IF fault THEN "OperationalError"
                 ELSE CreateTableError(frame.csv_type, tx.tables, dbTypes)
        IN  IF e # "none"
            THEN /\ err' = e
                 /\ pc' = "exit"
                 /\ frame' = [frame EXCEPT !.at = pc]
                 /\ UNCHANGED tx
            ELSE /\ tx' = [tx EXCEPT !.tables = @ \cup {frame.csv_type}]
                 /\ pc' = "create_temp"
                 /\ UNCHANGED << err, frame >>
    /\ UNCHANGED << caller, attempts, disk, conn, temp, last, probe >>
    /\ UNCHANGED << driverVars, storeVars >>

\* line 213: CREATE TEMPORARY TABLE <temp_name> (LIKE <csv_type> INCLUDING ALL) ON COMMIT DROP
CreateTemp ==
    /\ pc = "create_temp"
    /\ \E fault \in BOOLEAN :
        LET e == IF fault THEN "OperationalError"
                 ELSE IF \E s \in temp : s.name = frame.temp_name THEN "DuplicateTable"
                 ELSE "none"
        IN  IF e # "none"
            THEN /\ err' = e
                 /\ pc' = "exit"
                 /\ frame' = [frame EXCEPT !.at = pc]
                 /\ UNCHANGED temp
            ELSE /\ temp' = temp \cup {[name |-> frame.temp_name, rows |-> <<>>]}
                 /\ pc' = "copy"
                 /\ UNCHANGED << err, frame >>
    /\ UNCHANGED << caller, attempts, disk, conn, tx, last, probe >>
    /\ UNCHANGED << driverVars, storeVars >>

Staging == CHOOSE s \in temp : s.name = frame.temp_name

\* line 214, Database.copy_from
Copy ==
    /\ pc = "copy"
    /\ \E fault \in BOOLEAN :
        LET rows == disk[frame.path].rows
            e == IF fault THEN "OperationalError"
                 ELSE CopyError(csv_type_to_schema[frame.csv_type], rows, TypeLabels)
        IN  IF e # "none"
            THEN /\ err' = e
                 /\ pc' = "exit"
                 /\ frame' = [frame EXCEPT !.at = pc]
                 /\ UNCHANGED temp
            ELSE /\ temp' = (temp \ {Staging}) \cup
                                {[name |-> frame.temp_name, rows |-> Staging.rows \o rows]}
                 /\ pc' = "merge"
                 /\ UNCHANGED << err, frame >>
    /\ UNCHANGED << caller, attempts, disk, conn, tx, last, probe >>
    /\ UNCHANGED << driverVars, storeVars >>

\* the staged rows up to the first whose foreign key fails
RECURSIVE AcceptedPrefix(_, _, _)
AcceptedPrefix(t, staged, rows) ==
    IF staged = <<>> \/ ~ForeignKeysHold(t, {Head(staged)}, rows) THEN <<>>
    ELSE <<Head(staged)>> \o AcceptedPrefix(t, Tail(staged), rows)

\* the merge done row by row on an autocommitting connection: the rows
\* before the failing one stay in the store
MergeRowByRow ==
    /\ pc = "merge"
    /\ LET t      == frame.csv_type
           schema == csv_type_to_schema[t]
           after  == Merged(schema, tx.rows[t], AcceptedPrefix(t, Staging.rows, tx.rows))
           e == IF ~ForeignKeysHold(t, Merged(schema, tx.rows[t], Staging.rows) \ tx.rows[t],
                                    tx.rows)
                THEN "ForeignKeyViolation" ELSE "none"
       IN  /\ tx' = [tx EXCEPT !.rows[t] = after]
           /\ dbRows' = [dbRows EXCEPT ![t] = after]
           /\ dbTables' = tx.tables
           /\ err' = e
           /\ pc' = IF e # "none" THEN "exit" ELSE "commit"
           /\ frame' = IF e # "none" THEN [frame EXCEPT !.at = pc] ELSE frame
    /\ UNCHANGED << caller, attempts, disk, conn, temp, last, probe, dbTypes >>
    /\ UNCHANGED driverVars

\* line 215: INSERT INTO <csv_type> SELECT * FROM <temp_name> ON CONFLICT DO NOTHING
Merge ==
    /\ pc = "merge"
    /\ \E fault \in BOOLEAN :
        LET t      == frame.csv_type
            schema == csv_type_to_schema[t]
            after  == Merged(schema, tx.rows[t], Staging.rows)
            e == IF fault THEN "OperationalError"
                 ELSE IF ~ForeignKeysHold(t, after \ tx.rows[t], tx.rows)
                      THEN "ForeignKeyViolation"
                 ELSE "none"
        IN  IF e # "none"
            THEN /\ err' = e
                 /\ pc' = "exit"
                 /\ frame' = [frame EXCEPT !.at = pc]
                 /\ UNCHANGED tx
            ELSE /\ tx' = [tx EXCEPT !.rows[t] = after]
                 /\ pc' = "commit"
                 /\ UNCHANGED << err, frame >>
    /\ UNCHANGED << caller, attempts, disk, conn, temp, last, probe >>
    /\ UNCHANGED << driverVars, storeVars >>

\* line 217, Database.commit: the transaction becomes the store, and the
\* ON COMMIT DROP table goes
Commit ==
    /\ pc = "commit"
    /\ dbTables' = tx.tables
    /\ dbRows' = tx.rows
    /\ temp' = {s \in temp : s.name # frame.temp_name}
    /\ pc' = "exit"
    /\ UNCHANGED << caller, attempts, frame, disk, dbTypes, conn, tx, err, last, probe >>
    /\ UNCHANGED driverVars

\* the temporary tables that outlive the session, were the staging table an ordinary one
StagingKept(tables) == tables

\* the temporary tables that outlive the session: none
StagingAfterClose(tables) == {}

\* Database.__exit__ and close: the connection closes, what was not
\* committed is rolled back, the exception (if any) goes on to the caller
Exit ==
    /\ pc = "exit"
    /\ conn' = FALSE
    /\ tx' = NoTx
    /\ temp' = StagingAfterClose(temp)
    /\ Finished(err)
    /\ IF err # "none"
       THEN /\ pc' = "raised"
            /\ UNCHANGED << si, ti >>
       ELSE IF caller = "roster"
            THEN /\ pc' = "listdir"
                 /\ UNCHANGED << si, ti >>
            ELSE /\ pc' = "loop"
                 /\ si' = NextSi
                 /\ ti' = NextTi
    /\ UNCHANGED << caller, attempts, frame, disk, err, sessions, log, runs, probe >>
    /\ UNCHANGED storeVars

(***************************************************************************)
(* insert_openstates_into_postgres                                         *)
(***************************************************************************)
\* lines 341-345: the legislator roster is loaded first, whether or not the file is there
LoadRoster ==
    /\ pc = "roster"
    /\ Call(RosterPath, "roster", "", "people")
    /\ UNCHANGED << disk, last, probe >>
    /\ UNCHANGED << driverVars, storeVars, txVars >>

\* line 347: os.listdir, in an order of the file system's choosing
ListDir ==
    /\ pc = "listdir"
    /\ sessions' \in Orderings(DirEntries(disk))
    /\ si' = 1
    /\ ti' = 1
    /\ pc' = "loop"
    /\ UNCHANGED << caller, log, attempts, runs, err, frame, disk, last, probe >>
    /\ UNCHANGED << storeVars, txVars >>

\* lines 350-353
CsvName(session, table) == Join(<<Upper(state_abbreviation), session, table>>, "_") \o ".csv"

\* lines 348 and 354
DataFilePath(session, table) == Join(<<state_abbreviation, session, CsvName(session, table)>>, "/")

\* the loop body with the os.path.isfile test left out
LoopStepUnguarded ==
    /\ pc = "loop"
    /\ si <= Len(sessions)
    /\ log' = Append(log, CsvName(sessions[si], table_order[ti]))
    /\ Call(DataFilePath(sessions[si], table_order[ti]), "loop", sessions[si], table_order[ti])
    /\ UNCHANGED << sessions, si, ti, runs, disk, last, probe >>
    /\ UNCHANGED << storeVars, txVars >>

\* lines 349-359, one pass of the inner loop body
LoopStep ==
    /\ pc = "loop"
    /\ si <= Len(sessions)
    /\ LET csv_name == CsvName(sessions[si], table_order[ti])
           data_file_path == DataFilePath(sessions[si], table_order[ti])
       IN  IF IsFile(disk, data_file_path)
           THEN /\ log' = Append(log, csv_name)
                /\ Call(data_file_path, "loop", sessions[si], table_order[ti])
                /\ UNCHANGED << si, ti >>
           ELSE /\ log' = Append(log, "NOT A FILE:  " \o csv_name)
                /\ si' = NextSi
                /\ ti' = NextTi
                /\ UNCHANGED << pc, caller, attempts, err, frame >>
    /\ UNCHANGED << sessions, runs, disk, last, probe >>
    /\ UNCHANGED << storeVars, txVars >>

\* the outer loop is exhausted: the driver returns
LoopEnd ==
    /\ pc = "loop"
    /\ si > Len(sessions)
    /\ pc' = "done"
    /\ UNCHANGED << caller, sessions, si, ti, log, attempts, runs, err, frame, disk,
                    last, probe >>
    /\ UNCHANGED << storeVars, txVars >>

\* line 366: the program is started again, on the disk and the store as they are
Rerun ==
    /\ pc \in {"done", "raised"}
    /\ runs < MaxRuns
    /\ runs' = runs + 1
    /\ pc' = "start"
    /\ caller' = "none"
    /\ sessions' = <<>>
    /\ si' = 1
    /\ ti' = 1
    /\ log' = <<>>
    /\ attempts' = <<>>
    /\ err' = "none"
    /\ frame' = NoFrame
    /\ UNCHANGED << disk, last, probe >>
    /\ UNCHANGED << storeVars, txVars >>

Next ==
    \/ InitializeDatabase
    \/ LoadRoster
    \/ ListDir
    \/ LoopStep
    \/ LoopEnd
    \/ Tokenize
    \/ Clean
    \/ Connect
    \/ Lookup
    \/ CreateTable
    \/ CreateTemp
    \/ Copy
    \/ Merge
    \/ Commit
    \/ Exit
    \/ Rerun

Spec == Init /\ [][Next]_vars

(***************************************************************************)
(* tokenize_data_file and the cleaner applied on their own, to arguments   *)
(* drawn from bounded sets                                                 *)
(***************************************************************************)
\* the length of the longest generated session code
MaxCodeLen == 4

\* the length of the longest generated cell text
MaxTextLen == 3

RECURSIVE StringsUpTo(_, _)
StringsUpTo(alphabet, n) ==
    IF n = 0 THEN {""}
    ELSE LET shorter == StringsUpTo(alphabet, n - 1)
         IN  shorter \cup {s \o c : s \in shorter, c \in alphabet}

SessionCodes ==
    StringsUpTo({"0", "1", "r", "d", "-"}, MaxCodeLen)
        \cup {"103rd", "102nd", "00NA", "2021", "93rd-1st", "20212022"}

CellTexts ==
    StringsUpTo({"a", "/", "["}, MaxTextLen)
        \cup {"a/b/c", "ocd-bill/u1", "['bill']", "u1"}

ColumnNames ==
    UNION {{csv_type_to_schema[t][c].name : c \in DOMAIN csv_type_to_schema[t]} :
              t \in DOMAIN csv_type_to_schema}

AtRest ==
    /\ pc = "idle"
    /\ caller = "none"
    /\ sessions = <<>>
    /\ si = 1
    /\ ti = 1
    /\ log = <<>>
    /\ attempts = <<>>
    /\ runs = 1
    /\ err = "none"
    /\ frame = NoFrame
    /\ disk = DiskOf({})
    /\ dbTypes = {}
    /\ dbTables = {}
    /\ dbRows = NoRows
    /\ conn = FALSE
    /\ tx = NoTx
    /\ temp = {}
    /\ last = NoLoad

restVars == << pc, caller, sessions, si, ti, log, attempts, runs, err, frame, disk,
               dbTypes, dbTables, dbRows, conn, tx, temp, last >>

InitTokenize ==
    /\ AtRest
    /\ probe \in {[kind |-> "tokenize", code |-> c, name |-> "IL_" \o c \o "_bills.csv",
                   done |-> FALSE, out |-> NoTokens] : c \in SessionCodes}

ApplyTokenize ==
    /\ probe.kind = "tokenize"
    /\ ~probe.done
    /\ probe' = [probe EXCEPT !.done = TRUE, !.out = tokenize_data_file(probe.name)]
    /\ UNCHANGED restVars

SpecTokenize == InitTokenize /\ [][ApplyTokenize]_vars

InitClean ==
    /\ AtRest
    /\ probe \in {[kind |-> "clean", column |-> n, cell |-> c, done |-> FALSE, out |-> NaN] :
                     n \in ColumnNames, c \in {NaN} \cup {Str(t) : t \in CellTexts \ {""}}}

ApplyClean ==
    /\ probe.kind = "clean"
    /\ ~probe.done
    /\ probe' = [probe EXCEPT
                    !.done = TRUE,
                    !.out = CleanTable([header |-> <<probe.column>>,
                                        rows |-> << <<probe.cell>> >>]).rows[1][1]]
    /\ UNCHANGED restVars

SpecClean == InitClean /\ [][ApplyClean]_vars

(***************************************************************************)
(* Lines 183-201 run on one file again and again, as repeated loads of the *)
(* same path run them: each pass reads what the pass before wrote.         *)
(***************************************************************************)
\* the number of passes over one file
MaxPasses == 2

\* field texts as a file on disk may hold them
FileTexts == CellTexts \cup {"NA", "ocd-bill/NA", "a/nan", "'NA'", "['NA']", "a/"}

InitReclean ==
    /\ AtRest
    /\ probe \in {[kind |-> "reclean", passes |-> 0, previous |-> NoFile,
                   file |-> [header |-> <<n>>, rows |-> << <<t>> >>]] :
                     n \in ColumnNames, t \in FileTexts}

Reclean ==
    /\ probe.kind = "reclean"
    /\ probe.passes < MaxPasses
    /\ probe' = [probe EXCEPT !.passes = @ + 1,
                              !.previous = probe.file,
                              !.file = CleanFile(probe.file)]
    /\ UNCHANGED restVars

SpecReclean == InitReclean /\ [][Reclean]_vars

(***************************************************************************)
(* Properties                                                              *)
(***************************************************************************)
Registered(t) == t \in DOMAIN csv_type_to_schema

\* the rows a load stages: the rows of its file, cleaned
StagedRows(l) == CleanFile(l.file).rows

RowSet(rows) == {rows[i] : i \in DOMAIN rows}

HasDuplicateIds(l) ==
    \E i, j \in DOMAIN StagedRows(l) : i # j /\ StagedRows(l)[i][1] = StagedRows(l)[j][1]

\* the file of load l is a valid file of a registered type for the store it
\* met: every line enters the table's layout, no identifier is missing or
\* repeated, and every row referenced is there
ValidLoad(l) ==
    /\ l.file # NoFile
    /\ Registered(l.csv_type)
    /\ CopyError(csv_type_to_schema[l.csv_type], StagedRows(l), TypeLabels) = "none"
    /\ ForeignKeysHold(l.csv_type, RowSet(StagedRows(l)), l.before)

\* a load has finished and its end was not a failure of the connection
Settled(l) == l.path # "" /\ l.err # "OperationalError"

\* C1: running populate_database on a valid file of a registered dataset
\* type completes without error, and running it again right after a run
\* that returned leaves the permanent table with the rows the first run left.
C1_LoadTwiceSameRows ==
    (Settled(last) /\ ValidLoad(last)) =>
        /\ last.err = "none"
        /\ last.again => last.after[last.csv_type] = last.before[last.csv_type]

\* C2: when a step of a load fails, the error leaves populate_database and
\* the permanent tables hold exactly the rows they held when the load
\* began; while the error is on its way out no row of the file is in them.
C2_FailureLeavesRows ==
    /\ (err # "none" /\ pc = "exit") => dbRows = frame.before
    /\ (err # "none" /\ pc # "exit") =>
            /\ pc = "raised"
            /\ last.err = err
            /\ last.after = last.before
            /\ dbRows = last.before

C2_Witness ==
    /\ pc = "raised"
    /\ last.at = "merge"
    /\ last.err = "ForeignKeyViolation"
    /\ Len(last.file.rows) = 2
    /\ ForeignKeysHold(last.csv_type, {StagedRows(last)[1]}, last.before)

\* no table loses or changes a row in this step
C3_StepKeepsRows == \A t \in DOMAIN dbRows : dbRows[t] \subseteq dbRows'[t]

\* a unique violation comes only from a file that repeats an identifier
\* itself, and a load that returned added the rows of new identifiers
C3_LoadAddsNewIds ==
    /\ (last.path # "" /\ last.err = "UniqueViolation") => HasDuplicateIds(last)
    /\ (last.path # "" /\ last.err = "none") =>
            last.after = [last.before EXCEPT ![last.csv_type] =
                @ \cup {r \in RowSet(StagedRows(last)) :
                            r[1] \notin Ids(csv_type_to_schema[last.csv_type], @)}]

\* C3: a row of a permanent table stays in it, with the same values, over
\* every later step; a load whose file repeats a stored identifier with
\* other values is no error on that account, keeps the stored row and
\* inserts the rows of the file whose identifiers are new.
C3_RecordLifecycle == []C3_LoadAddsNewIds /\ [][C3_StepKeepsRows]_vars

C3_Witness ==
    /\ last.err = "none"
    /\ last.path # ""
    /\ \E r \in RowSet(StagedRows(last)) :
          /\ r \notin last.before[last.csv_type]
          /\ r[1] \in Ids(csv_type_to_schema[last.csv_type], last.before[last.csv_type])
    /\ \E r \in RowSet(StagedRows(last)) :
          /\ r \in last.after[last.csv_type]
          /\ r \notin last.before[last.csv_type]

\* C4: once populate_database has returned or raised, no staging table
\* exists; the staging table a load copies into is the only one, newly
\* made and empty, and making it never meets a table of that name.
C4_StagingNeverLeaks ==
    /\ ~conn => temp = {}
    /\ err # "DuplicateTable"
    /\ pc = "copy" => temp = {[name |-> frame.csv_type \o "_temp", rows |-> <<>>]}

C4_Witness ==
    /\ pc = "copy"
    /\ temp # {}
    /\ last.at = "merge"
    /\ last.csv_type = frame.csv_type
    /\ last.file.rows # <<>>

IndexIn(order, t) == CHOOSE i \in DOMAIN order : order[i] = t

\* C5: the driver calls populate_database on the roster file first and on
\* no later call; within a session it takes the dataset types in the order
\* of table_order; table_order holds each of the fourteen registry keys
\* once; every referenced table comes before the table referencing it, so
\* within a session no type is attempted before a type it references.
C5_DependencyOrder ==
    /\ Len(table_order) = Cardinality(DOMAIN csv_type_to_schema)
    /\ Cardinality(DOMAIN csv_type_to_schema) = 14
    /\ {table_order[i] : i \in DOMAIN table_order} = DOMAIN csv_type_to_schema
    /\ \A t \in DOMAIN csv_type_to_schema : \A parent \in ParentsOf(t) :
            IndexIn(table_order, parent) < IndexIn(table_order, t)
    /\ \A i \in DOMAIN attempts : (attempts[i].path = RosterPath) <=> (i = 1)
    /\ \A i, j \in DOMAIN attempts :
            (1 < i /\ i < j /\ attempts[i].session = attempts[j].session) =>
                /\ IndexIn(table_order, attempts[i].table) < IndexIn(table_order, attempts[j].table)
                /\ attempts[j].table \notin ParentsOf(attempts[i].table)

C5_Witness ==
    \E i, j \in DOMAIN attempts :
        /\ i < j
        /\ attempts[i].session = attempts[j].session
        /\ attempts[i].table \in ParentsOf(attempts[j].table)

\* C6: when the batch driver loads a file of a registered type into a store
\* it found empty and initialized, and the tables the type references are
\* there, creating the table succeeds, and afterwards the table and every
\* enumerated type its columns name exist.
C6_SchemaEstablished ==
    LET fresh == DOMAIN FoundEnums \cap dbTypes = {}
    IN  /\ (fresh /\ pc = "exit" /\ frame.at = "create_table" /\ err # "OperationalError") =>
                ~(ParentsOf(frame.csv_type) \subseteq tx.tables)
        /\ (fresh /\ pc = "create_temp") =>
                /\ frame.csv_type \in tx.tables
                /\ EnumsUsed(frame.csv_type) \subseteq dbTypes

IsMiss(line) == SubSeq(line, 1, 10) = "NOT A FILE"

\* the line the driver prints for a pair
LineOf(session, table) ==
    IF IsFile(disk, DataFilePath(session, table)) THEN CsvName(session, table)
    ELSE "NOT A FILE:  " \o CsvName(session, table)

\* the step the driver takes at a pair whose file does not exist
C7_MissStep ==
    (pc = "loop" /\ si <= Len(sessions)
        /\ ~IsFile(disk, DataFilePath(sessions[si], table_order[ti]))) =>
            /\ pc' = "loop"
            /\ err' = "none"
            /\ attempts' = attempts
            /\ log' = Append(log, "NOT A FILE:  " \o CsvName(sessions[si], table_order[ti]))
            /\ si' = NextSi
            /\ ti' = NextTi
            /\ UNCHANGED << storeVars, txVars, disk >>

\* a driver that returned printed one line for every pair, in order
C7_AllPairsVisited ==
    pc = "done" =>
        /\ Len(log) = Len(sessions) * Len(table_order)
        /\ \A s \in DOMAIN sessions : \A k \in DOMAIN table_order :
              log[(s - 1) * Len(table_order) + k] = LineOf(sessions[s], table_order[k])

\* C7: for a pair whose file does not exist the driver calls no load, prints
\* the NOT A FILE line, raises nothing and moves to the next pair; a driver
\* that returns has attempted or reported every type of every session.
C7_MissingFileSkipped == []C7_AllPairsVisited /\ [][C7_MissStep]_vars

C7_Witness ==
    /\ pc = "done"
    /\ \E i, j \in DOMAIN log : i < j /\ IsMiss(log[i]) /\ ~IsMiss(log[j])
    /\ Len(sessions) >= 2

\* the session code of a generated name: the part before any hyphen
SessionCodeOf(code) == Split(code, "-")[1]

EndsInTwoLetters(c) == Len(c) >= 2 /\ IsAlpha(Char(c, Len(c) - 1)) /\ IsAlpha(Char(c, Len(c)))

\* C8: tokenize_data_file raises for every file name whose session code
\* does not end in two letters, and for a session code made of digits and
\* two letters it returns the number the digits write.
C8_MalformedSessionRejected ==
    (probe.kind = "tokenize" /\ probe.done) =>
        LET c == SessionCodeOf(probe.code)
        IN  /\ ~EndsInTwoLetters(c) => probe.out.err # "none"
            /\ (EndsInTwoLetters(c) /\ Len(c) > 2 /\ AllDigits(DropLastTwo(c))) =>
                    /\ probe.out.err = "none"
                    /\ probe.out.session = DigitsValue(DropLastTwo(c))

EndsInId(n) == Len(n) >= 2 /\ Char(n, Len(n) - 1) = "i" /\ Char(n, Len(n)) = "d"

\* seg is what follows the last "/" of s, or all of s when s holds none
IsFinalSegment(seg, s) ==
    /\ ~Contains(seg, "/")
    /\ Len(seg) <= Len(s)
    /\ SubSeq(s, Len(s) - Len(seg) + 1, Len(s)) = seg
    /\ Len(seg) = Len(s) \/ Char(s, Len(s) - Len(seg)) = "/"

C10_DuplicateIdsTolerated ==
    (Settled(last) /\ Registered(last.csv_type) /\ last.file # NoFile /\ HasDuplicateIds(last)
        /\ last.at \notin {"create_table", "merge"}) =>
            /\ last.err = "none"
            /\ \A i \in DOMAIN StagedRows(last) :
                  Cardinality({r \in last.after[last.csv_type] :
                                  r[1] = StagedRows(last)[i][1]}) = 1

\* the file is cleaned on disk while no connection to the store is open
C11_CleanedBeforeConnect ==
    /\ pc \in {"tokenize", "clean"} => ~conn
    /\ (pc = "connect" /\ frame.file # NoFile) =>
            /\ ~conn
            /\ disk[frame.path] = CleanFile(frame.file)

\* C11: cleaning a file that the cleaner has already written leaves its
\* contents as they are, so a repeated load of the path stages the rows the
\* first load staged.
C11_CleaningIdempotent ==
    (probe.kind = "reclean" /\ probe.passes >= 2) => probe.file = probe.previous

=============================================================================
